---- MODULE Spec2Model ----
(***************************************************************************)
(* DimensionDataNodeDriver (libcloud/compute/drivers/dimensiondata.py) as  *)
(* a state machine.  The driver object is constructed once; callers then   *)
(* invoke its public operations.  Every blocking call into the Connection  *)
(* collaborator is split in two steps: the operation issues the request    *)
(* (it is appended to the caller's request log) and, in a later step, the  *)
(* Connection either returns a parsed document or raises; the operation    *)
(* then runs on to its next request or to its return.                      *)
(*                                                                         *)
(* XML documents are records: a child element or attribute that may be     *)
(* missing is either the text None or the record Absent.  The Status       *)
(* sub-entity (_to_status) and the descriptive extra fields of images are  *)
(* left out: no operation branches on them.                                *)
(***************************************************************************)
EXTENDS Integers, Sequences, FiniteSets, TLC

VARIABLES driver, pc, op, args, reqs, resps, locals, result

vars == <<driver, pc, op, args, reqs, resps, locals, result>>

(***************************************************************************)
(* Bounds of the model.                                                    *)
(***************************************************************************)
\* longest list of info elements in a deployServer response
MaxInfo == 2
\* longest list of elements in a listing response
MaxElems == 2
\* longest list of datacenter elements in a location listing
MaxLocs == 2
\* longest list in any response when two callers are interleaved
MaxConcElems == 1

SeqUpTo(S, n) == UNION {[1..k -> S] : k \in 0..n}

(***************************************************************************)
(* Python values.                                                          *)
(***************************************************************************)
\* the value None where a text is expected (findtext / get on a missing node)
None == "<None>"
\* element.find(...) that matches nothing
Absent == [present |-> FALSE]
\* the object None passed as an argument
NoneObj == [kind |-> "NoneType"]

\* '%s' % x
Format(x) == IF x = None THEN "None" ELSE x

\* str(b).lower()
StrLower(b) == IF b THEN "true" ELSE "false"

\* isinstance(obj, cls)
isinstance(obj, cls) == obj.kind = cls

\* obj has an attribute id
HasId(obj) == "id" \in DOMAIN obj

Return(v) == [kind |-> "return", value |-> v]
Raise(e) == [kind |-> "raise", error |-> e]
NoResult == [kind |-> "none"]

\* a parsed response document, or the error the Connection raised
Ok(doc) == [ok |-> TRUE, doc |-> doc]
Err(e) == [ok |-> FALSE, error |-> e]

TYPES_URN == "urn:didata.com:api:cloud:types"

\* region name -> endpoint
API_ENDPOINTS == [r \in {"dd-na", "dd-eu"} |->
                    IF r = "dd-na" THEN "api-na.dimensiondata.com"
                                   ELSE "api-eu.dimensiondata.com"]

DEFAULT_REGION == "dd-na"

\* region names a caller may pass to the constructor
RegionNames == DOMAIN API_ENDPOINTS \cup {"dd-xx"}

\* errors the Connection collaborator raises
ConnectionErrors == {"InvalidCredsError", "MalformedResponseError"}

(***************************************************************************)
(* Requests handed to the Connection.                                      *)
(***************************************************************************)
NoBody == [tag |-> "<none>"]

Request(api, path, method, params, data) ==
    [api |-> api, path |-> path, method |-> method, params |-> params,
     data |-> data]

\* connection.request_with_orgId_api_2(path) with the default method
Get2(path, params) == Request("orgId_api_2", path, "GET", params, NoBody)

(***************************************************************************)
(* create_node: argument check and the deployServer request body.          *)
(***************************************************************************)
\* NodeDriver._get_and_check_auth: the driver's feature is 'password', so a
\* missing auth yields a generated password
_get_and_check_auth(auth) ==
    IF isinstance(auth, "NodeAuthPassword")
    THEN [password |-> auth.password, generated |-> FALSE]
    ELSE [password |-> "generated-pw", generated |-> TRUE]

\* the isinstance checks guarding the ValueError
NetworkArgsValidNoDomain(a) ==
    a.ex_network # NoneObj \/ a.ex_network_domain # NoneObj

NetworkArgsValid(a) ==
    \/ isinstance(a.ex_network, "DimensionDataNetwork")
    \/ isinstance(a.ex_network_domain, "DimensionDataNetworkDomain")

\* an attribute access of the request construction fails
BuildFails(a) ==
    \/ ~HasId(a.image)
    \/ a.ex_network # NoneObj /\ ~HasId(a.ex_network)
    \/ a.ex_network_domain # NoneObj
         /\ (~HasId(a.ex_network_domain) \/ ~HasId(a.ex_vlan))

\* the network / networkInfo children of the deployServer element
NetworkChildren(a) ==
    (IF a.ex_network # NoneObj
     THEN <<[tag |-> "network", networkId |-> a.ex_network.id]>>
     ELSE <<>>)
    \o
    (IF a.ex_network_domain # NoneObj
     THEN <<[tag |-> "networkInfo",
             networkDomainId |-> a.ex_network_domain.id,
             primaryNic |-> [vlanId |-> a.ex_vlan.id]]>>
     ELSE <<>>)

deployServer(a, password) ==
    [tag |-> "deployServer", xmlns |-> TYPES_URN,
     name |-> a.name, description |-> a.ex_description,
     imageId |-> a.image.id, start |-> StrLower(a.ex_is_started),
     administratorPassword |-> password,
     children |-> NetworkChildren(a)]

\* the loop over the info elements of the deploy response: the value of the
\* last one named serverId, None when there is none
ServerIdAnyName(infos) ==
    IF infos = <<>> THEN None ELSE infos[Len(infos)].value

RECURSIVE ServerId(_)
ServerId(infos) ==
    IF infos = <<>> THEN None
    ELSE LET info == infos[Len(infos)]
             rest == SubSeq(infos, 1, Len(infos) - 1)
         IN  IF info.name = "serverId" THEN info.value ELSE ServerId(rest)

(***************************************************************************)
(* Lifecycle actions: element tag and path of each operation.              *)
(***************************************************************************)
LifecycleOps ==
    {"destroy_node", "reboot_node", "ex_start_node", "ex_shutdown_graceful",
     "ex_power_off", "ex_reset"}

\* the literal given to ET.Element in each operation
ActionTag(o) ==
    CASE o = "destroy_node"         -> "deleteServer"
      [] o = "reboot_node"          -> "rebootServer"
      [] o = "ex_start_node"        -> "startServer"
      [] o = "ex_shutdown_graceful" -> "shutdownServer"
      [] o = "ex_power_off"         -> "powerOffServer"
      [] o = "ex_reset"             -> "resetServer"

\* the path literal given to request_with_orgId_api_2 in each operation
ActionPathCopied(o) ==
    IF o = "ex_reset" THEN <<"server", "rebootServer">>
                      ELSE <<"server", ActionTag(o)>>

ActionPath(o) ==
    CASE o = "destroy_node"         -> <<"server", "deleteServer">>
      [] o = "reboot_node"          -> <<"server", "rebootServer">>
      [] o = "ex_start_node"        -> <<"server", "startServer">>
      [] o = "ex_shutdown_graceful" -> <<"server", "shutdownServer">>
      [] o = "ex_power_off"         -> <<"server", "powerOffServer">>
      [] o = "ex_reset"             -> <<"server", "resetServer">>

ActionRequest(o, node) ==
    Request("orgId_api_2", ActionPath(o), "POST", {},
            [tag |-> ActionTag(o), xmlns |-> TYPES_URN, id |-> node.id])

\* findtext(body, 'responseCode', TYPES_URN): None when the element is missing
findtext_responseCode(body) == body.responseCode

\* result == 'IN_PROGRESS'
AcceptedUnlessMissing(code) == code # None

Accepted(code) == code = "IN_PROGRESS"

(***************************************************************************)
(* Entity mappers.                                                         *)
(***************************************************************************)
\* the first raise of a sequence of mapping outcomes, else the list of values
Collect(rs) ==
    IF \E i \in 1..Len(rs) : rs[i].kind = "raise"
    THEN rs[CHOOSE i \in 1..Len(rs) :
               /\ rs[i].kind = "raise"
               /\ \A j \in 1..(i - 1) : rs[j].kind # "raise"]
    ELSE Return([i \in 1..Len(rs) |-> rs[i].value])

\* int(text)
IntOf(text) == CASE text = "1" -> 1 [] text = "2" -> 2 [] text = "4" -> 4

\* [x] if x is not None else []
ListOf(x) == IF x = None THEN <<>> ELSE <<x>>

\* the element the private IP is read from
PrivateIpElementNicFirst(element) ==
    IF element.nic.present THEN element.nic
    ELSE IF element.networkInfo.present THEN element.networkInfo.primaryNic
    ELSE Absent

PrivateIpElement(element) ==
    IF element.networkInfo.present
    THEN element.networkInfo.primaryNic
    ELSE element.nic

\* RUNNING when started is 'true', TERMINATED otherwise
NodeStateUnlessFalse(started) ==
    IF started # "false" THEN "RUNNING" ELSE "TERMINATED"

NodeStateOf(started) == IF started = "true" THEN "RUNNING" ELSE "TERMINATED"

_to_node(element) ==
    LET has_network_info == element.networkInfo.present
        nic == PrivateIpElement(element)
    IN  IF element.cpuCount = None \/ element.memoryGb = None
        THEN Raise("TypeError")
        ELSE IF ~element.operatingSystem.present \/ ~nic.present
        THEN Raise("AttributeError")
        ELSE Return(
          [id |-> element.id,
           name |-> element.name,
           state |-> NodeStateOf(element.started),
           public_ips |-> ListOf(element.publicIpAddress),
           private_ips |-> ListOf(nic.privateIpv4),
           extra |->
             [networkDomainId |->
                 IF has_network_info THEN element.networkInfo.networkDomainId
                                     ELSE None,
              datacenterId |-> element.datacenterId,
              cpuCount |-> IntOf(element.cpuCount),
              memoryMb |-> IntOf(element.memoryGb) * 1024,
              OS_id |-> element.operatingSystem.id]])

_to_nodes(object) == Collect([i \in 1..Len(object) |-> _to_node(object[i])])

_to_location(element) ==
    [id |-> element.id, name |-> element.displayName,
     country |-> element.country]

_to_locations(object) == [i \in 1..Len(object) |-> _to_location(object[i])]

\* list(filter(lambda x: x.id == location_id, locations))[0]
first_match(location_id, locations) ==
    LET found == SelectSeq(locations, LAMBDA x : x.id = location_id)
    IN  IF found = <<>> THEN Raise("IndexError") ELSE Return(found[1])

\* an entity embedding the location resolved from location_id
WithLocation(cls, id, location_id, locations) ==
    LET location == first_match(location_id, locations)
    IN  IF location.kind = "raise" THEN location
        ELSE Return([kind |-> cls, id |-> id, location |-> location.value])

_to_base_image(element, locations) ==
    WithLocation("NodeImage", element.id, element.location, locations)

_to_network(element, locations) ==
    WithLocation("DimensionDataNetwork", element.id, element.location,
                 locations)

_to_network_domain(element, locations) ==
    WithLocation("DimensionDataNetworkDomain", element.id,
                 element.datacenterId, locations)

_to_vlan(element, locations) ==
    WithLocation("DimensionDataVlan", element.id, element.datacenterId,
                 locations)

\* the operations whose mapper resolves a location per element
ListingOps ==
    {"list_images", "list_networks", "ex_list_networks",
     "ex_list_network_domains", "ex_list_vlans"}

\* _to_base_images / _to_networks / _to_network_domains / _to_vlans, once the
\* location list is there
MapListing(o, object, locations) ==
    Collect([i \in 1..Len(object) |->
        CASE o = "list_images" -> _to_base_image(object[i], locations)
          [] o \in {"list_networks", "ex_list_networks"}
               -> _to_network(object[i], locations)
          [] o = "ex_list_network_domains"
               -> _to_network_domain(object[i], locations)
          [] o = "ex_list_vlans" -> _to_vlan(object[i], locations)])

(***************************************************************************)
(* Inputs: the arguments callers pass and the documents the provider       *)
(* returns.                                                                *)
(***************************************************************************)
Callers == {1, 2}

Net == [kind |-> "DimensionDataNetwork", id |-> "NET1"]
Dom == [kind |-> "DimensionDataNetworkDomain", id |-> "ND1"]
Vlan == [kind |-> "DimensionDataVlan", id |-> "VLAN1"]
StrObj == [kind |-> "str"]
Loc == [kind |-> "NodeLocation", id |-> "NA1"]

CreateArgs(networks, domains, vlans, auths, starts) ==
    [name : {"web1"}, image : {[kind |-> "NodeImage", id |-> "IMG1"]},
     auth : auths, ex_description : {"web server"},
     ex_network : networks, ex_network_domain : domains, ex_vlan : vlans,
     ex_is_started : starts]

Password == [kind |-> "NodeAuthPassword", password |-> "secret"]

InfoElems ==
    {[name |-> "serverId", value |-> "SRV1"],
     [name |-> "serverId", value |-> "SRV2"],
     [name |-> "requestId", value |-> "REQ7"]}

NetworkInfos ==
    {Absent}
    \cup [present : {TRUE}, networkDomainId : {"ND1"},
          primaryNic : {Absent} \cup [present : {TRUE},
                                      privateIpv4 : {"10.0.0.1", None}]]

Nics == {Absent, [present |-> TRUE, privateIpv4 |-> "10.0.0.2"]}

ServerElems(starteds, networkInfos, nics, publicIps) ==
    [id : {"SRV1"}, name : {"web1"}, datacenterId : {"NA1"},
     started : starteds, networkInfo : networkInfos, nic : nics,
     publicIpAddress : publicIps, cpuCount : {"2"}, memoryGb : {"4"},
     operatingSystem : {[present |-> TRUE, id |-> "UBUNTU"]}]

DatacenterElems ==
    {[id |-> "NA1", displayName |-> "US - East", country |-> "US"],
     [id |-> "NA1", displayName |-> "US - East 2", country |-> "US"],
     [id |-> "NA2", displayName |-> "US - West", country |-> "US"]}

\* the elements of a listing, each referring to a location by id
ListingElems(o, locRefs) ==
    IF o \in {"list_images", "list_networks", "ex_list_networks"}
    THEN [id : {"E1"}, location : locRefs]
    ELSE [id : {"E1"}, datacenterId : locRefs]

Full ==
    [createArgs |-> CreateArgs({NoneObj, Net, Dom, StrObj},
                               {NoneObj, Dom, Net, StrObj},
                               {NoneObj, Vlan}, {NoneObj, Password}, BOOLEAN),
     nodes |-> [kind : {"Node"}, id : {"SRV1", "SRV2"}],
     nodeIds |-> {"SRV1", "SRV2"},
     deployDocs |-> SeqUpTo(InfoElems, MaxInfo),
     serverDocs |-> ServerElems({"true", "false", "", None}, NetworkInfos,
                                Nics, {None, "168.128.1.1"}),
     serverLists |-> SeqUpTo(ServerElems({"true", "false", None},
                                         {Absent, CHOOSE n \in NetworkInfos :
                                             n.present /\ n.primaryNic.present
                                                /\ n.primaryNic.privateIpv4 # None},
                                         Nics, {None}),
                             MaxElems),
     codes |-> {"IN_PROGRESS", "in_progress", "ERROR", None},
     locDocs |-> SeqUpTo(DatacenterElems, MaxLocs),
     locRefs |-> {"NA1", "NA2", None},
     maxElems |-> MaxElems,
     locArgs |-> {NoneObj, Loc},
     domArgs |-> {NoneObj, Dom},
     locIds |-> {None, "NA1", "NA2"},
     errors |-> ConnectionErrors]

Lean ==
    [createArgs |-> CreateArgs({NoneObj, Net}, {NoneObj, Dom}, {Vlan},
                               {NoneObj}, {TRUE}),
     nodes |-> [kind : {"Node"}, id : {"SRV1"}],
     nodeIds |-> {"SRV1"},
     deployDocs |-> {<<[name |-> "serverId", value |-> v]>> :
                        v \in {"SRV1", "SRV2"}},
     serverDocs |-> ServerElems({"true"}, {Absent}, Nics, {None}),
     serverLists |-> SeqUpTo(ServerElems({"true"}, {Absent}, Nics, {None}),
                             MaxConcElems),
     codes |-> {"IN_PROGRESS", "ERROR"},
     locDocs |-> SeqUpTo({d \in DatacenterElems : d.id = "NA2"},
                         MaxConcElems),
     locRefs |-> {"NA1", "NA2"},
     maxElems |-> MaxConcElems,
     locArgs |-> {NoneObj},
     domArgs |-> {NoneObj},
     locIds |-> {None, "NA2"},
     errors |-> {"InvalidCredsError"}]

\* what a request may be answered with
Responses(docs, U) == {Ok(d) : d \in docs} \cup {Err(e) : e \in U.errors}

(***************************************************************************)
(* State after construction of the class, before any driver object exists. *)
(***************************************************************************)
Init ==
    /\ driver = [state |-> "none", region |-> None, selected_region |-> None,
                 connection |-> Absent]
    /\ pc = [c \in Callers |-> "idle"]
    /\ op = [c \in Callers |-> "none"]
    /\ args = [c \in Callers |-> NoneObj]
    /\ reqs = [c \in Callers |-> <<>>]
    /\ resps = [c \in Callers |-> <<>>]
    /\ locals = [c \in Callers |-> <<>>]
    /\ result = [c \in Callers |-> NoResult]

(***************************************************************************)
(* __init__                                                                *)
(***************************************************************************)
\* API_ENDPOINTS[region]
SelectedRegionDefault(region) == API_ENDPOINTS[DEFAULT_REGION]

SelectedRegion(region) == API_ENDPOINTS[region]

\* the driver object __init__ leaves behind; the connection is instantiated
\* by the base class with the kwargs of _ex_connection_class_kwargs
__init__(region) ==
    IF region \notin DOMAIN API_ENDPOINTS
    THEN [state |-> "rejected", region |-> region, selected_region |-> None,
          connection |-> Absent]
    ELSE [state |-> "ok", region |-> region,
          selected_region |-> SelectedRegion(region),
          connection |-> [present |-> TRUE,
                          region |-> SelectedRegion(region)]]

Construct ==
    \E region \in RegionNames :
        /\ driver.state = "none"
        /\ driver' = __init__(region)
        /\ UNCHANGED <<pc, op, args, reqs, resps, locals, result>>

(***************************************************************************)
(* Steps of a call.                                                        *)
(***************************************************************************)
\* caller c invokes operation o with arguments a on the constructed driver
Called(c, o, a) ==
    /\ driver.state = "ok"
    /\ pc[c] = "idle"
    /\ op' = [op EXCEPT ![c] = o]
    /\ args' = [args EXCEPT ![c] = a]
    /\ UNCHANGED <<driver, resps, locals>>

\* the Connection answers the request c is blocked on at stage with r
Received(c, stage, r) ==
    /\ pc[c] = stage
    /\ resps' = [resps EXCEPT ![c] = Append(@, r)]
    /\ UNCHANGED <<driver, op, args>>

\* c moves on to stage, having issued the requests rs, with outcome res
Go(c, stage, rs, res) ==
    /\ pc' = [pc EXCEPT ![c] = stage]
    /\ reqs' = [reqs EXCEPT ![c] = @ \o rs]
    /\ result' = [result EXCEPT ![c] = res]

Send(c, stage, req) == Go(c, stage, <<req>>, NoResult)

Finish(c, res) == Go(c, "done", <<>>, res)

\* a local variable of the running call is bound to v
SetLocalShared(c, v) == locals' = [k \in Callers |-> v]

SetLocal(c, v) == locals' = [locals EXCEPT ![c] = v]

\* self.list_locations(), as called by the mappers and by the caller
list_locations_request == Get2(<<"infrastructure", "datacenter">>, {})

ex_get_node_by_id_request(id) == Get2(<<"server", "server", Format(id)>>, {})

(***************************************************************************)
(* create_node                                                             *)
(***************************************************************************)
\* up to the deploy request: auth, argument check, request construction
create_node(c, U) ==
    \E a \in U.createArgs :
        /\ Called(c, "create_node", a)
        /\ LET auth_obj == _get_and_check_auth(a.auth)
           IN  IF ~NetworkArgsValid(a)
               THEN Finish(c, Raise("ValueError"))
               ELSE IF BuildFails(a)
               THEN Finish(c, Raise("AttributeError"))
               ELSE Send(c, "deploy",
                         Request("orgId_api_2", <<"server", "deployServer">>,
                                 "POST", {},
                                 deployServer(a, auth_obj.password)))

\* the deploy response is there: extract the server id, fetch the node
create_node_deployed_swallow(c, U) ==
    \E r \in Responses(U.deployDocs, U) :
        /\ op[c] = "create_node"
        /\ Received(c, "deploy", r)
        /\ UNCHANGED locals
        /\ Send(c, "fetch",
                ex_get_node_by_id_request(IF r.ok THEN ServerId(r.doc)
                                                  ELSE None))

create_node_deployed_checked(c, U) ==
    \E r \in Responses(U.deployDocs, U) :
        /\ op[c] = "create_node"
        /\ Received(c, "deploy", r)
        /\ UNCHANGED locals
        /\ IF ~r.ok
           THEN Finish(c, Raise(r.error))
           ELSE IF ServerId(r.doc) = None
           THEN Finish(c, Raise("ValueError"))
           ELSE Send(c, "fetch", ex_get_node_by_id_request(ServerId(r.doc)))

create_node_deployed(c, U) ==
    \E r \in Responses(U.deployDocs, U) :
        /\ op[c] = "create_node"
        /\ Received(c, "deploy", r)
        /\ UNCHANGED locals
        /\ IF ~r.ok
           THEN Finish(c, Raise(r.error))
           ELSE Send(c, "fetch", ex_get_node_by_id_request(ServerId(r.doc)))

\* node.extra['password'] = auth_obj.password, when the password was generated
WithPassword(node, auth_obj) ==
    IF auth_obj.generated
    THEN [node EXCEPT !.extra = [password |-> auth_obj.password] @@ @]
    ELSE node

(***************************************************************************)
(* ex_get_node_by_id, called by a caller or by create_node                 *)
(***************************************************************************)
ex_get_node_by_id(c, U) ==
    \E id \in U.nodeIds :
        /\ Called(c, "ex_get_node_by_id", [id |-> id])
        /\ Send(c, "fetch", ex_get_node_by_id_request(id))

\* the node document is there: map it and return
ex_get_node_by_id_return(c, U) ==
    \E r \in Responses(U.serverDocs, U) :
        /\ op[c] \in {"create_node", "ex_get_node_by_id"}
        /\ Received(c, "fetch", r)
        /\ UNCHANGED locals
        /\ LET node == _to_node(r.doc)
           IN  IF ~r.ok
               THEN Finish(c, Raise(r.error))
               ELSE IF node.kind = "raise" \/ op[c] # "create_node"
               THEN Finish(c, node)
               ELSE Finish(c, Return(WithPassword(node.value,
                                  _get_and_check_auth(args[c].auth))))

(***************************************************************************)
(* destroy_node, reboot_node, ex_start_node, ex_shutdown_graceful,         *)
(* ex_power_off, ex_reset                                                  *)
(***************************************************************************)
lifecycle_action(c, U) ==
    \E o \in LifecycleOps, node \in U.nodes :
        /\ Called(c, o, [node |-> node])
        /\ Send(c, "action", ActionRequest(o, node))

lifecycle_action_return(c, U) ==
    \E r \in Responses([responseCode : U.codes], U) :
        /\ op[c] \in LifecycleOps
        /\ Received(c, "action", r)
        /\ UNCHANGED locals
        /\ IF ~r.ok
           THEN Finish(c, Raise(r.error))
           ELSE Finish(c, Return(Accepted(findtext_responseCode(r.doc))))

(***************************************************************************)
(* Inventory listings                                                      *)
(***************************************************************************)
\* params of a listing: key -> value, only for the filters that are given
Param(key, obj) == IF obj # NoneObj THEN {<<key, obj.id>>} ELSE {}

list_nodes(c, U) ==
    /\ Called(c, "list_nodes", NoneObj)
    /\ Send(c, "nodes", Get2(<<"server", "server">>, {}))

list_nodes_return(c, U) ==
    \E r \in Responses(U.serverLists, U) :
        /\ op[c] = "list_nodes"
        /\ Received(c, "nodes", r)
        /\ UNCHANGED locals
        /\ Finish(c, IF r.ok THEN _to_nodes(r.doc) ELSE Raise(r.error))

list_sizes(c, U) ==
    /\ Called(c, "list_sizes", NoneObj)
    /\ Finish(c, Return(<<[id |-> 1, name |-> "default"]>>))

list_locations(c, U) ==
    /\ Called(c, "list_locations", NoneObj)
    /\ Send(c, "locations", list_locations_request)

list_images(c, U) ==
    \E location \in U.locArgs :
        /\ Called(c, "list_images", [location |-> location])
        /\ Send(c, "listing",
                Request("api_1", <<"base", "imageWithDiskSpeed">>, "GET",
                        Param("location", location), NoBody))

list_networks(c, U) ==
    \E location \in U.locArgs :
        /\ Called(c, "list_networks", [location |-> location])
        /\ Send(c, "listing",
                Request("orgId_api_1",
                        <<"networkWithLocation">>
                          \o (IF location # NoneObj THEN <<location.id>>
                                                    ELSE <<>>),
                        "GET", {}, NoBody))

ex_list_networks(c, U) ==
    \E location \in U.locArgs :
        /\ Called(c, "ex_list_networks", [location |-> location])
        /\ Send(c, "listing",
                Request("orgId_api_1", <<"networkWithLocation">>, "GET",
                        Param("location", location), NoBody))

ex_list_network_domains(c, U) ==
    \E location \in U.locArgs :
        /\ Called(c, "ex_list_network_domains", [location |-> location])
        /\ Send(c, "listing",
                Get2(<<"network", "networkDomain">>,
                     Param("datacenterId", location)))

ex_list_vlans(c, U) ==
    \E location \in U.locArgs, network_domain \in U.domArgs :
        /\ Called(c, "ex_list_vlans",
                  [location |-> location, network_domain |-> network_domain])
        /\ Send(c, "listing",
                Get2(<<"network", "vlan">>,
                     Param("datacenterId", location)
                       \cup Param("networkDomainId", network_domain)))

\* the listing document is there: the mapper (_to_base_images, _to_networks,
\* _to_network_domains, _to_vlans) first calls list_locations
listing_received_skip_empty(c, U) ==
    \E r \in Responses(SeqUpTo(ListingElems(op[c], U.locRefs), U.maxElems), U) :
        /\ op[c] \in ListingOps
        /\ Received(c, "listing", r)
        /\ IF ~r.ok
           THEN UNCHANGED locals /\ Finish(c, Raise(r.error))
           ELSE IF r.doc = <<>>
           THEN UNCHANGED locals /\ Finish(c, Return(<<>>))
           ELSE SetLocal(c, r.doc) /\ Send(c, "locations",
                                            list_locations_request)

listing_received(c, U) ==
    \E r \in Responses(SeqUpTo(ListingElems(op[c], U.locRefs), U.maxElems), U) :
        /\ op[c] \in ListingOps
        /\ Received(c, "listing", r)
        /\ IF ~r.ok
           THEN UNCHANGED locals /\ Finish(c, Raise(r.error))
           ELSE SetLocal(c, r.doc) /\ Send(c, "locations",
                                            list_locations_request)

ex_get_location_by_id(c, U) ==
    \E id \in U.locIds :
        /\ Called(c, "ex_get_location_by_id", [id |-> id])
        /\ IF id = None
           THEN Finish(c, Return(None))
           ELSE Send(c, "locations", list_locations_request)

\* list_locations returns to the caller, to ex_get_location_by_id or to the
\* mapper that called it
list_locations_return(c, U) ==
    \E r \in Responses(U.locDocs, U) :
        /\ op[c] \in ListingOps \cup {"list_locations", "ex_get_location_by_id"}
        /\ Received(c, "locations", r)
        /\ UNCHANGED locals
        /\ LET locations == _to_locations(r.doc)
           IN  IF ~r.ok
               THEN Finish(c, Raise(r.error))
               ELSE IF op[c] = "list_locations"
               THEN Finish(c, Return(locations))
               ELSE IF op[c] = "ex_get_location_by_id"
               THEN Finish(c, first_match(args[c].id, locations))
               ELSE Finish(c, MapListing(op[c], locals[c], locations))

\* the caller takes the outcome; the call's frame is gone
Returned(c) ==
    /\ pc[c] = "done"
    /\ pc' = [pc EXCEPT ![c] = "idle"]
    /\ op' = [op EXCEPT ![c] = "none"]
    /\ args' = [args EXCEPT ![c] = NoneObj]
    /\ reqs' = [reqs EXCEPT ![c] = <<>>]
    /\ resps' = [resps EXCEPT ![c] = <<>>]
    /\ locals' = [locals EXCEPT ![c] = <<>>]
    /\ result' = [result EXCEPT ![c] = NoResult]
    /\ UNCHANGED driver

(***************************************************************************)
(* Specifications                                                          *)
(***************************************************************************)
Step(c, U) ==
    \/ create_node(c, U)
    \/ create_node_deployed(c, U)
    \/ ex_get_node_by_id(c, U)
    \/ ex_get_node_by_id_return(c, U)
    \/ lifecycle_action(c, U)
    \/ lifecycle_action_return(c, U)
    \/ list_nodes(c, U)
    \/ list_nodes_return(c, U)
    \/ list_sizes(c, U)
    \/ list_locations(c, U)
    \/ list_images(c, U)
    \/ list_networks(c, U)
    \/ ex_list_networks(c, U)
    \/ ex_list_network_domains(c, U)
    \/ ex_list_vlans(c, U)
    \/ listing_received(c, U)
    \/ ex_get_location_by_id(c, U)
    \/ list_locations_return(c, U)
    \/ Returned(c)

\* one caller, the full range of arguments and documents
Next == Construct \/ Step(1, Full)

Spec == Init /\ [][Next]_vars

\* two callers on the same driver, interleaved at every blocking call
NextConc == Construct \/ \E c \in Callers : Step(c, Lean)

SpecConc == Init /\ [][NextConc]_vars

(***************************************************************************)
(* Properties                                                              *)
(***************************************************************************)
IsDeploy(req) == req.path = <<"server", "deployServer">>

IsFetch(req) == Len(req.path) = 3 /\ SubSeq(req.path, 1, 2) = <<"server", "server">>

\* C1: create_node whose ex_network is no DimensionDataNetwork and whose
\* ex_network_domain is no DimensionDataNetworkDomain (both unset included)
\* ends with ValueError and has issued no request at all.
C1_RejectedBeforeRequest ==
    \A c \in Callers :
        /\ op[c] = "create_node"
        /\ args[c].ex_network.kind # "DimensionDataNetwork"
        /\ args[c].ex_network_domain.kind # "DimensionDataNetworkDomain"
        => /\ pc[c] = "done"
           /\ result[c] = Raise("ValueError")
           /\ reqs[c] = <<>>
           /\ resps[c] = <<>>

C1_Witness ==
    \E c \in Callers :
        /\ op[c] = "create_node"
        /\ args[c].ex_network = NoneObj
        /\ args[c].ex_network_domain.kind = "DimensionDataNetwork"
        /\ result[c] = Raise("ValueError")

\* C2: every deploy request carries exactly one network attachment, a
\* network element or a networkInfo element, never both and never neither.
C2_ExactlyOneAttachment ==
    \A c \in Callers :
        \A i \in 1..Len(reqs[c]) :
            IsDeploy(reqs[c][i]) =>
                LET children == reqs[c][i].data.children
                IN  /\ Len(children) = 1
                    /\ children[1].tag \in {"network", "networkInfo"}

\* C3: create_node issues the deploy POST first and, only once its response
\* is there, one get-by-id fetch, for the value of the (last) info element
\* named serverId of that response; the node it returns is the one mapped
\* from the fetched document.
C3_DeployThenFetch ==
    \A c \in Callers :
        op[c] = "create_node" =>
            /\ Len(reqs[c]) <= 2
            /\ Len(reqs[c]) >= 1 =>
                 /\ IsDeploy(reqs[c][1])
                 /\ reqs[c][1].method = "POST"
            /\ Len(reqs[c]) = 2 =>
                 /\ Len(resps[c]) >= 1
                 /\ resps[c][1].ok
                 /\ IsFetch(reqs[c][2])
                 /\ reqs[c][2].method = "GET"
                 /\ LET infos == resps[c][1].doc
                        named == {i \in 1..Len(infos) :
                                     infos[i].name = "serverId"}
                        last == CHOOSE i \in named : \A j \in named : j <= i
                    IN  named # {} => reqs[c][2].path[3] = infos[last].value
            /\ pc[c] = "done" /\ result[c].kind = "return" =>
                 /\ Len(reqs[c]) = 2
                 /\ Len(resps[c]) = 2
                 /\ resps[c][2].ok
                 /\ LET el == resps[c][2].doc
                        node == result[c].value
                    IN  /\ node.id = el.id
                        /\ node.name = el.name
                        /\ node.public_ips = ListOf(el.publicIpAddress)
                        /\ node.extra.datacenterId = el.datacenterId

C3_Witness ==
    \E c \in Callers :
        /\ op[c] = "create_node"
        /\ pc[c] = "done"
        /\ result[c].kind = "return"
        /\ Len(resps[c][1].doc) = 2
        /\ resps[c][1].doc[1].name = "serverId"
        /\ resps[c][1].doc[2].name # "serverId"
        /\ reqs[c][2].path[3] = resps[c][1].doc[1].value

\* C4: a lifecycle action whose request was answered returns a flag, true
\* exactly when the responseCode text is IN_PROGRESS; any other text and a
\* missing responseCode give false, not an error.
C4_AcceptedIffInProgress ==
    \A c \in Callers :
        op[c] \in LifecycleOps /\ pc[c] = "done" /\ resps[c][1].ok =>
            /\ result[c].kind = "return"
            /\ result[c].value \in BOOLEAN
            /\ result[c].value <=> resps[c][1].doc.responseCode = "IN_PROGRESS"

C4_Witness ==
    \E c \in Callers :
        /\ op[c] = "ex_power_off"
        /\ pc[c] = "done"
        /\ resps[c][1].ok
        /\ resps[c][1].doc.responseCode = None
        /\ result[c] = Return(FALSE)

\* C5: a lifecycle action issues one request, a POST to server/<x>Server
\* whose body is one empty <x>Server element with the node's id as its id
\* attribute, and is over as soon as that request is answered.
C5_OneRequestPerAction ==
    \A c \in Callers :
        op[c] \in LifecycleOps =>
            /\ Len(reqs[c]) = 1
            /\ LET q == reqs[c][1]
               IN  /\ q.method = "POST"
                   /\ q.params = {}
                   /\ DOMAIN q.data = {"tag", "xmlns", "id"}
                   /\ q.data.tag \in
                        {"deleteServer", "rebootServer", "startServer",
                         "shutdownServer", "powerOffServer", "resetServer"}
                   /\ q.path = <<"server", q.data.tag>>
                   /\ q.data.id = args[c].node.id
            /\ Len(resps[c]) <= 1
            /\ Len(resps[c]) = 1 <=> pc[c] = "done"

C5_Witness ==
    \E c \in Callers :
        /\ op[c] = "ex_reset"
        /\ pc[c] = "done"
        /\ args[c].node.id = "SRV2"
        /\ resps[c][1].ok
        /\ resps[c][1].doc.responseCode = "ERROR"
        /\ Len(reqs[c]) = 1

\* the locations of a list with the given id, in list order
Matches(id, locations) == SelectSeq(locations, LAMBDA x : x.id = id)

\* the id an element of a listing refers to its location by
LocationRef(o, element) ==
    IF o \in {"list_images", "list_networks", "ex_list_networks"}
    THEN element.location ELSE element.datacenterId

\* C6: resolving a location id against the fetched location list gives the
\* first Location with that id, and a not-found result, never a crash, when
\* no Location has it: in ex_get_location_by_id and in the image, network,
\* network-domain and VLAN mappers.
C6_LocationResolved ==
    \A c \in Callers :
        /\ pc[c] = "done" /\ op[c] = "ex_get_location_by_id"
             /\ Len(resps[c]) = 1 /\ resps[c][1].ok
           => LET found == Matches(args[c].id, _to_locations(resps[c][1].doc))
              IN  IF found # <<>> THEN result[c] = Return(found[1])
                                  ELSE result[c].kind = "return"
        /\ pc[c] = "done" /\ op[c] \in ListingOps
             /\ Len(resps[c]) = 2 /\ resps[c][2].ok
           => LET elements == resps[c][1].doc
                  locations == _to_locations(resps[c][2].doc)
              IN  /\ result[c].kind = "return"
                  /\ \A i \in 1..Len(elements) :
                        LET found == Matches(LocationRef(op[c], elements[i]),
                                             locations)
                        IN  found # <<>> =>
                                result[c].value[i].location = found[1]

\* C7: when the Connection raises on a request, the operation ends with
\* that very error, and the failed request is the last one it issued: no
\* retry, no further request, no value returned.
C7_ErrorsPassThrough ==
    \A c \in Callers :
        \A i \in 1..Len(resps[c]) :
            ~resps[c][i].ok =>
                /\ i = Len(resps[c])
                /\ Len(reqs[c]) = i
                /\ pc[c] = "done"
                /\ result[c] = Raise(resps[c][i].error)

C7_Witness ==
    \E c \in Callers :
        /\ op[c] = "create_node"
        /\ pc[c] = "done"
        /\ resps[c] = <<Err("MalformedResponseError")>>
        /\ Len(reqs[c]) = 1
        /\ result[c] = Raise("MalformedResponseError")

\* what an operation called with arguments a and answered with rs ends with
Outcome(o, a, rs) ==
    LET failed == {i \in 1..Len(rs) : ~rs[i].ok}
    IN  IF failed # {} THEN Raise(rs[CHOOSE i \in failed : TRUE].error)
        ELSE CASE o = "create_node" ->
                    IF ~NetworkArgsValid(a) THEN Raise("ValueError")
                    ELSE IF BuildFails(a) THEN Raise("AttributeError")
                    ELSE LET node == _to_node(rs[2].doc)
                         IN  IF node.kind = "raise" THEN node
                             ELSE Return(WithPassword(node.value,
                                            _get_and_check_auth(a.auth)))
               [] o = "ex_get_node_by_id" -> _to_node(rs[1].doc)
               [] o \in LifecycleOps ->
                    Return(rs[1].doc.responseCode = "IN_PROGRESS")
               [] o = "list_nodes" -> _to_nodes(rs[1].doc)
               [] o = "list_sizes" ->
                    Return(<<[id |-> 1, name |-> "default"]>>)
               [] o = "list_locations" -> Return(_to_locations(rs[1].doc))
               [] o = "ex_get_location_by_id" ->
                    IF a.id = None THEN Return(None)
                    ELSE first_match(a.id, _to_locations(rs[1].doc))
               [] o \in ListingOps ->
                    MapListing(o, rs[1].doc, _to_locations(rs[2].doc))

\* the outcome of every finished call is the one its own arguments and the
\* answers to its own requests determine, and the node create_node fetches
\* is the one its own deploy response names
C8_OwnInputsOnly ==
    \A c \in Callers :
        /\ pc[c] = "done" => result[c] = Outcome(op[c], args[c], resps[c])
        /\ op[c] = "create_node" /\ Len(reqs[c]) = 2 =>
              reqs[c][2] = ex_get_node_by_id_request(ServerId(resps[c][1].doc))

\* C8: with two callers interleaved on one driver, no step changes the
\* constructed driver (the selected region stays), and every call's outcome
\* depends on its own arguments and responses only.
C8_NoSharedState ==
    /\ []C8_OwnInputsOnly
    /\ [][driver.state # "none" => driver' = driver]_vars

C8_Witness ==
    /\ driver.state = "ok"
    /\ pc[1] = "done" /\ pc[2] = "done"
    /\ op[1] = "list_images" /\ op[2] = "list_images"
    /\ resps[1][1].ok /\ resps[2][1].ok
    /\ resps[1][1].doc # resps[2][1].doc
    /\ result[1].kind = "return" /\ result[2].kind = "return"
    /\ result[1] # result[2]

\* C9: a region name that is no key of API_ENDPOINTS is rejected by the
\* constructor with no connection set up and no request issued; with a
\* known region the selected endpoint is the one registered under it.
C9_RegionChecked ==
    /\ driver.state = "rejected" <=>
          driver.state # "none" /\ driver.region \notin DOMAIN API_ENDPOINTS
    /\ driver.state = "rejected" =>
          /\ ~driver.connection.present
          /\ driver.selected_region = None
          /\ \A c \in Callers : pc[c] = "idle" /\ reqs[c] = <<>>
    /\ driver.state = "ok" =>
          /\ driver.selected_region = API_ENDPOINTS[driver.region]
          /\ driver.connection.present
          /\ driver.connection.region = API_ENDPOINTS[driver.region]

C9_Witness == driver.state = "rejected" /\ driver.region = "dd-xx"

\* the private IPs a node mapped from element el must carry
C10_Expected(el, node) ==
    IF el.networkInfo.present
    THEN /\ el.networkInfo.primaryNic.present
         /\ node.private_ips = ListOf(el.networkInfo.primaryNic.privateIpv4)
    ELSE /\ el.nic.present
         /\ node.private_ips = ListOf(el.nic.privateIpv4)

\* C10: a mapped Node has its private IP from networkInfo/primaryNic when
\* the element has a networkInfo subtree, whatever its nic element says,
\* and from the nic element when it has none.
C10_PrivateIpFromOneShape ==
    \A c \in Callers :
        pc[c] = "done" /\ result[c].kind = "return" =>
            /\ op[c] \in {"create_node", "ex_get_node_by_id"} =>
                  C10_Expected(resps[c][Len(resps[c])].doc, result[c].value)
            /\ op[c] = "list_nodes" =>
                  \A i \in 1..Len(resps[c][1].doc) :
                      C10_Expected(resps[c][1].doc[i], result[c].value[i])

C10_Witness ==
    \E c \in Callers :
        /\ op[c] = "ex_get_node_by_id"
        /\ pc[c] = "done"
        /\ result[c].kind = "return"
        /\ resps[c][1].doc.networkInfo.present
        /\ resps[c][1].doc.nic.present
        /\ result[c].value.private_ips = <<"10.0.0.1">>

\* neither private-IP shape of a Server element matches
NoPrivateIpShape(el) ==
    \/ ~el.networkInfo.present /\ ~el.nic.present
    \/ el.networkInfo.present /\ ~el.networkInfo.primaryNic.present

\* C11: a Server element in which neither private-IP shape matches is
\* mapped to a Node with no private IP; the mapping, and the get-node-by-id,
\* create or list-nodes call that invoked it, do not fail.
C11_NoShapeGivesEmptyIp ==
    \A c \in Callers :
        /\ pc[c] = "done" /\ op[c] \in {"create_node", "ex_get_node_by_id"}
             /\ Len(resps[c]) >= 1 /\ resps[c][Len(resps[c])].ok
             /\ IsFetch(reqs[c][Len(reqs[c])])
             /\ Len(reqs[c]) = Len(resps[c])
             /\ NoPrivateIpShape(resps[c][Len(resps[c])].doc)
           => /\ result[c].kind = "return"
              /\ result[c].value.private_ips = <<>>
        /\ pc[c] = "done" /\ op[c] = "list_nodes" /\ resps[c][1].ok
           => /\ result[c].kind = "return"
              /\ \A i \in 1..Len(resps[c][1].doc) :
                     NoPrivateIpShape(resps[c][1].doc[i]) =>
                         result[c].value[i].private_ips = <<>>

\* the state a node mapped from element el must carry
C12_Expected(el, node) ==
    /\ node.state \in {"RUNNING", "TERMINATED"}
    /\ node.state = "RUNNING" <=> el.started = "true"

\* C12: every Node that get-node-by-id, create or list nodes returns is
\* Running when the element's started text is true and Terminated when it
\* is false, empty or missing; there is no third state.
C12_RunningOrTerminated ==
    \A c \in Callers :
        pc[c] = "done" /\ result[c].kind = "return" =>
            /\ op[c] \in {"create_node", "ex_get_node_by_id"} =>
                  C12_Expected(resps[c][Len(resps[c])].doc, result[c].value)
            /\ op[c] = "list_nodes" =>
                  \A i \in 1..Len(resps[c][1].doc) :
                      C12_Expected(resps[c][1].doc[i], result[c].value[i])

C12_Witness ==
    \E c \in Callers :
        /\ op[c] = "list_nodes"
        /\ pc[c] = "done"
        /\ result[c].kind = "return"
        /\ Len(result[c].value) = 2
        /\ resps[c][1].doc[1].started = "true"
        /\ result[c].value[1].state = "RUNNING"
        /\ resps[c][1].doc[2].started = None
        /\ result[c].value[2].state = "TERMINATED"

IsLocationList(req) == req.path = <<"infrastructure", "datacenter">>

\* how many location-list requests the running call of c has issued
LocationListCount(c) ==
    Cardinality({i \in 1..Len(reqs[c]) : IsLocationList(reqs[c][i])})

\* every element of a finished listing carries the first Location of the
\* call's own location list that has the id the element refers to
ResolvedAgainstOwnList(c) ==
    pc[c] = "done" /\ result[c].kind = "return" =>
        LET elements == resps[c][1].doc
            locations == _to_locations(resps[c][2].doc)
        IN  /\ Len(result[c].value) = Len(elements)
            /\ \A i \in 1..Len(elements) :
                  LET found == Matches(LocationRef(op[c], elements[i]),
                                       locations)
                  IN  found # <<>> /\ result[c].value[i].location = found[1]

\* C13 as stated: every finished call of list images, list networks, list
\* network domains and list VLANs has issued exactly one location-list
\* request besides its listing request; list nodes issues none.
C13_OneLocationListPerCall ==
    \A c \in Callers :
        /\ op[c] \in ListingOps /\ pc[c] = "done" =>
              /\ LocationListCount(c) = 1
              /\ Len(reqs[c]) = 2
        /\ op[c] \in ListingOps => ResolvedAgainstOwnList(c)
        /\ op[c] = "list_nodes" => LocationListCount(c) = 0

\* C13 amended: a listing call whose own listing request was answered
\* issues exactly one location-list request, after the listing request and
\* whatever the number of elements listed, and resolves every element
\* against the answer to it; a call whose listing request failed issues
\* none; list nodes issues none.
C13_OneLocationListOnceListed ==
    \A c \in Callers :
        /\ op[c] \in ListingOps =>
              /\ Len(reqs[c]) >= 1 /\ ~IsLocationList(reqs[c][1])
              /\ Len(resps[c]) >= 1 /\ resps[c][1].ok =>
                    /\ Len(reqs[c]) = 2
                    /\ reqs[c][2] = list_locations_request
                    /\ LocationListCount(c) = 1
              /\ Len(resps[c]) >= 1 /\ ~resps[c][1].ok =>
                    LocationListCount(c) = 0
              /\ Len(resps[c]) = 0 => LocationListCount(c) = 0
              /\ ResolvedAgainstOwnList(c)
        /\ op[c] = "list_nodes" => LocationListCount(c) = 0

C13_Witness ==
    \E c \in Callers :
        /\ op[c] = "ex_list_vlans"
        /\ pc[c] = "done"
        /\ result[c].kind = "return"
        /\ Len(resps[c][1].doc) = 2
        /\ Len(resps[c][2].doc) = 2
        /\ LocationListCount(c) = 1

\* the deploy response of c's create_node is there and has no info element
\* named serverId
NoServerId(c) ==
    /\ op[c] = "create_node"
    /\ Len(resps[c]) >= 1
    /\ resps[c][1].ok
    /\ \A i \in 1..Len(resps[c][1].doc) : resps[c][1].doc[i].name # "serverId"

\* C14: when the deploy response has no info element named serverId,
\* create_node goes on to the get-by-id fetch, for the path
\* server/server/None, and ends with whatever that fetch gives: its error,
\* the mapping's error or the mapped node.
C14_FetchWithoutServerId ==
    \A c \in Callers :
        NoServerId(c) =>
            /\ Len(reqs[c]) = 2
            /\ IsDeploy(reqs[c][1])
            /\ reqs[c][2].method = "GET"
            /\ reqs[c][2].path = <<"server", "server", "None">>
            /\ pc[c] = "done" <=> Len(resps[c]) = 2
            /\ pc[c] = "done" =>
                  IF ~resps[c][2].ok
                  THEN result[c] = Raise(resps[c][2].error)
                  ELSE IF NoPrivateIpShape(resps[c][2].doc)
                  THEN result[c].kind = "raise"
                  ELSE /\ result[c].kind = "return"
                       /\ result[c].value.id = resps[c][2].doc.id

C14_Witness ==
    \E c \in Callers :
        /\ NoServerId(c)
        /\ Len(resps[c][1].doc) = 1
        /\ pc[c] = "done"
        /\ reqs[c][2].path[3] = "None"
        /\ result[c].kind = "return"

====
